---- MODULE Spec2Model ----
(***************************************************************************)
(* Model of the two scripts of the SEO audit pipeline:                     *)
(*   scripts/quick-check.py        the Fetcher  (basic_seo_check, __main__)  *)
(*   scripts/send-notifications.py the Notifier (SEONotificationSystem,     *)
(*                                               main)                      *)
(* Python dicts are TLA+ functions whose DOMAIN is the set of keys present. *)
(* Rendered text is a sequence of tokens (literal pieces and formatted      *)
(* values), so that "the subject contains Score: 85/100" is a statement     *)
(* about sub-sequences.  The file system is a function from the paths that  *)
(* exist to their contents; writes to the working directory succeed.        *)
(* Results files hold JSON objects whose "score" and "critical_issues",     *)
(* when present, are integers (the AuditResult of the data model).          *)
(***************************************************************************)
EXTENDS Integers, Sequences, FiniteSets, TLC

VARIABLES
    fs,                 \* path -> file content, for the files that exist
    fpc,                \* Fetcher process: "ready" | "exited"
    fexit,              \* Fetcher exit code, -1 while it has not exited
    gets,               \* URLs the Fetcher issued a GET to, in order
    npc,                \* Notifier process: position in send_notifications
    args,               \* Notifier command line: audit_type, status, url, results_file
    env,                \* Notifier environment: slack_webhook, discord_webhook
    results,            \* send_notifications' local: the loaded results
    urgency,            \* send_notifications' local: the urgency
    notifications_sent, \* send_notifications' local: channels that reported success
    attempted,          \* channel methods called so far, in call order
    console,            \* lines printed by send_console_notification
    subject,            \* subject built by send_email_notification
    posts,              \* requests.post calls: channel, destination, payload, outcome
    nexit               \* Notifier exit code, -1 while it has not exited

vars == <<fs, fpc, fexit, gets, npc, args, env, results, urgency,
          notifications_sent, attempted, console, subject, posts, nexit>>

fetcherVars == <<fpc, fexit, gets>>
notifierVars == <<npc, args, env, results, urgency, notifications_sent,
                  attempted, console, subject, posts, nexit>>

(***************************************************************************)
(* Bounds of the model and constants of the program.                       *)
(***************************************************************************)
MaxScore == 100          \* scores range over 0..MaxScore
MaxCritical == 4         \* critical-issue counts range over 0..MaxCritical
MaxClock == 1            \* datetime.now() ranges over 0..MaxClock

DefaultScore == 100      \* results.get("score", 100)
DefaultCritical == 0     \* results.get("critical_issues", 0)
HighScoreBelow == 50     \* score < 50
HighCriticalAbove == 3   \* critical_issues > 3
MediumScoreBelow == 70   \* score < 70
MediumCriticalAbove == 0 \* critical_issues > 0
ShownScoreDefault == 0   \* results.get("score", 0) in the renderers

ResultsPath == "quick-results.json"
IssuePath == "github-issue-data.json"
NoPath == ""             \* --results not given (None is falsy, like "")
NoUrgency == "NONE"      \* before determine_urgency has run

AuditTypes == {"quick", "full", "deep"}
Statuses == {"success", "failure"}
Urls == {"https://example.com"}
Webhooks == {"", "https://hooks.example/T1"}
Urgencies == {"CRITICAL", "HIGH", "MEDIUM", "LOW"}
StatusCodes == {200, 404, 500}

(***************************************************************************)
(* Python helpers.                                                         *)
(***************************************************************************)
\* dict.get(k, default)
Get(d, k, default) == IF k \in DOMAIN d THEN d[k] ELSE default

\* str.upper() on the words the scripts upper-case
Upper(s) ==
    CASE s = "quick" -> "QUICK"
      [] s = "full" -> "FULL"
      [] s = "deep" -> "DEEP"
      [] s = "success" -> "SUCCESS"
      [] s = "failure" -> "FAILURE"
      [] OTHER -> s

\* str.lower() on the tokens of a response body
Lower(s) ==
    CASE s = "<TITLE>" -> "<title>"
      [] s = "NAME=\"DESCRIPTION\"" -> "name=\"description\""
      [] OTHER -> s

DigitChars == <<"0", "1", "2", "3", "4", "5", "6", "7", "8", "9">>

\* f"{n}" for a non-negative integer: its decimal digits
RECURSIVE FormatInt(_)
FormatInt(n) ==
    IF n < 10 THEN <<DigitChars[n + 1]>>
    ELSE FormatInt(n \div 10) \o <<DigitChars[(n % 10) + 1]>>

\* sub in text, for token sequences
Contains(text, sub) ==
    \E i \in 0..(Len(text) - Len(sub)) :
        \A j \in 1..Len(sub) : text[i + j] = sub[j]

(***************************************************************************)
(* Notifier: the pure parts of SEONotificationSystem.                      *)
(***************************************************************************)
\* json.load of a results file: corrupt content raises, a JSON object loads
Parses(content) == content.kind = "json"

\* load_results with the existence test dropped and a failed load read as empty results
load_results_no_exists_test(results_file, disk) ==
    IF results_file \in DOMAIN disk /\ Parses(disk[results_file])
    THEN disk[results_file].data
    ELSE [score |-> ShownScoreDefault]

\* load_results(results_file), reading the file system disk
load_results(results_file, disk) ==
    IF results_file = NoPath \/ results_file \notin DOMAIN disk
    THEN [error |-> "No results file found"]
    ELSE IF Parses(disk[results_file])
         THEN disk[results_file].data
         ELSE [error |-> "Could not load results: JSONDecodeError"]

\* determine_urgency with "and" for "or" in the MEDIUM test
determine_urgency_medium_and(res, status) ==
    IF status = "failure" THEN "CRITICAL"
    ELSE IF "error" \in DOMAIN res THEN "CRITICAL"
    ELSE LET score == Get(res, "score", DefaultScore)
             critical_issues == Get(res, "critical_issues", DefaultCritical)
         IN  IF score < HighScoreBelow \/ critical_issues > HighCriticalAbove
             THEN "HIGH"
             ELSE IF score < MediumScoreBelow /\ critical_issues > MediumCriticalAbove
                  THEN "MEDIUM"
                  ELSE "LOW"

\* determine_urgency with the two threshold tests in the other order
determine_urgency_medium_first(res, status) ==
    IF status = "failure" THEN "CRITICAL"
    ELSE IF "error" \in DOMAIN res THEN "CRITICAL"
    ELSE LET score == Get(res, "score", DefaultScore)
             critical_issues == Get(res, "critical_issues", DefaultCritical)
         IN  IF score < MediumScoreBelow \/ critical_issues > MediumCriticalAbove
             THEN "MEDIUM"
             ELSE IF score < HighScoreBelow \/ critical_issues > HighCriticalAbove
                  THEN "HIGH"
                  ELSE "LOW"

\* determine_urgency with a missing score defaulting to 0, as the renderers do
determine_urgency_default_zero(res, status) ==
    IF status = "failure" THEN "CRITICAL"
    ELSE IF "error" \in DOMAIN res THEN "CRITICAL"
    ELSE LET score == Get(res, "score", ShownScoreDefault)
             critical_issues == Get(res, "critical_issues", DefaultCritical)
         IN  IF score < HighScoreBelow \/ critical_issues > HighCriticalAbove
             THEN "HIGH"
             ELSE IF score < MediumScoreBelow \/ critical_issues > MediumCriticalAbove
                  THEN "MEDIUM"
                  ELSE "LOW"

\* determine_urgency(results, status)
determine_urgency(res, status) ==
    IF status = "failure" THEN "CRITICAL"
    ELSE IF "error" \in DOMAIN res THEN "CRITICAL"
    ELSE LET score == Get(res, "score", DefaultScore)
             critical_issues == Get(res, "critical_issues", DefaultCritical)
         IN  IF score < HighScoreBelow \/ critical_issues > HighCriticalAbove
             THEN "HIGH"
             ELSE IF score < MediumScoreBelow \/ critical_issues > MediumCriticalAbove
                  THEN "MEDIUM"
                  ELSE "LOW"

\* send_console_notification: the lines it prints (header, then the score
\* branch or the error branch; the optional detail lines are left out)
console_lines(audit_type, status, url, res) ==
    << <<"Website: ", url>>,
       <<"Audit Type: ", Upper(audit_type)>>,
       <<"Status: ", Upper(status)>> >>
    \o (IF "error" \notin DOMAIN res
        THEN << <<"SEO Score: ">> \o FormatInt(Get(res, "score", ShownScoreDefault))
                \o <<"/100">> >>
        ELSE << <<"Error: ", res["error"]>> >>)

\* the subject with the audit-type test dropped
email_subject_no_weekly(audit_type, url, res, urg) ==
    IF urg = "CRITICAL" THEN <<"CRITICAL: SEO Issues Detected", " - ", url>>
    ELSE IF urg = "HIGH" THEN <<"HIGH: SEO Problems Found", " - ", url>>
    ELSE <<"SEO Audit Complete", " - ", "Score: ">>
         \o FormatInt(Get(res, "score", ShownScoreDefault))
         \o <<"/100", " - ", url>>

\* send_email_notification: the subject it builds
email_subject(audit_type, url, res, urg) ==
    IF urg = "CRITICAL" THEN <<"CRITICAL: SEO Issues Detected", " - ", url>>
    ELSE IF urg = "HIGH" THEN <<"HIGH: SEO Problems Found", " - ", url>>
    ELSE IF audit_type = "deep" THEN <<"Weekly SEO Report", " - ", url>>
    ELSE <<"SEO Audit Complete", " - ", "Score: ">>
         \o FormatInt(Get(res, "score", ShownScoreDefault))
         \o <<"/100", " - ", url>>

\* color_map.get(urgency, ...) of the Slack attachment
slack_color(urg) ==
    CASE urg = "CRITICAL" -> "#ff0000"
      [] urg = "HIGH" -> "#ff9900"
      [] urg = "MEDIUM" -> "#ffcc00"
      [] urg = "LOW" -> "#00ff00"
      [] OTHER -> "#0099ff"

\* color_map.get(urgency, ...) of the Discord embed
discord_color(urg) ==
    CASE urg = "CRITICAL" -> 16711680
      [] urg = "HIGH" -> 16750848
      [] urg = "MEDIUM" -> 16763904
      [] urg = "LOW" -> 65280
      [] OTHER -> 39423

\* the payload create_github_issue dumps
issue_payload(audit_type, status, url, res, now) ==
    [audit_type |-> audit_type, status |-> status, url |-> url,
     results |-> res, timestamp |-> now]

\* main: sys.exit(0 if success else 1), inverted
exit_code_inverted(success) == IF success THEN 1 ELSE 0

\* main: sys.exit(0 if success else 1)
exit_code(success) == IF success THEN 0 ELSE 1

(***************************************************************************)
(* Fetcher: the pure parts of basic_seo_check.                             *)
(***************************************************************************)
\* response.text.lower()
LowerText(body) == [i \in 1..Len(body) |-> Lower(body[i])]

\* the substring tests without .lower()
has_marker_case_sensitive(body, marker) == \E i \in 1..Len(body) : body[i] = marker

\* marker in response.text.lower()
has_marker(body, marker) == \E i \in 1..Len(body) : LowerText(body)[i] = marker

\* the report with a failing status code recorded as an error
report_flags_http_error(url, response, now) ==
    IF response.status_code >= 400
    THEN [url |-> url, timestamp |-> now, error |-> "HTTP error"]
    ELSE [url |-> url, timestamp |-> now,
          status_code |-> response.status_code,
          response_time |-> response.elapsed,
          content_length |-> Len(response.body),
          has_title |-> has_marker(response.body, "<title>"),
          has_meta_description |-> has_marker(response.body, "name=\"description\"")]

\* the report dict built from a response
report(url, response, now) ==
    [url |-> url,
     timestamp |-> now,
     status_code |-> response.status_code,
     response_time |-> response.elapsed,
     content_length |-> Len(response.body),
     has_title |-> has_marker(response.body, "<title>"),
     has_meta_description |-> has_marker(response.body, "name=\"description\"")]

\* open(path, "w") and json.dump(data, f): the file system afterwards
WriteJson(disk, path, data) ==
    [p \in DOMAIN disk \cup {path} |->
        IF p = path THEN [kind |-> "json", data |-> data] ELSE disk[p]]

(***************************************************************************)
(* The inputs the model draws from.                                        *)
(***************************************************************************)
Bodies == { <<>>, <<"<TITLE>">>, <<"text", "name=\"description\"">>,
            <<"<title>", "NAME=\"DESCRIPTION\"">> }
ElapsedTimes == {0, 3}
Responses == [status_code : StatusCodes, body : Bodies, elapsed : ElapsedTimes]
Clock == 0..MaxClock
PostOutcomes == {"ok", "http_error", "exception"}

\* a results dict: the keys present are those whose flag is set
MkResults(hasError, hasScore, score, hasCritical, critical) ==
    [k \in (IF hasError THEN {"error"} ELSE {})
           \cup (IF hasScore THEN {"score"} ELSE {})
           \cup (IF hasCritical THEN {"critical_issues"} ELSE {}) |->
        CASE k = "error" -> "audit crashed"
          [] k = "score" -> score
          [] k = "critical_issues" -> critical]

\* every results dict of the data model, over the full ranges
AllResults ==
    { MkResults(e, hs, s, hc, c) :
        e \in BOOLEAN, hs \in BOOLEAN, s \in 0..MaxScore,
        hc \in BOOLEAN, c \in 0..MaxCritical }

\* the scores and counts around the thresholds, and the score of the example
ScoreSamples == {0, HighScoreBelow - 1, HighScoreBelow, MediumScoreBelow - 1,
                 MediumScoreBelow, 85, MaxScore}
CriticalSamples == {0, 1, HighCriticalAbove, MaxCritical}

\* the results dicts an earlier audit step may have left in the results file
SampleResults ==
    { MkResults(FALSE, hs, s, hc, c) :
        hs \in BOOLEAN, s \in ScoreSamples, hc \in BOOLEAN, c \in CriticalSamples }
    \cup { MkResults(TRUE, hs, HighScoreBelow - 1, FALSE, 0) : hs \in BOOLEAN }

StaleIssue ==
    [kind |-> "json",
     data |-> issue_payload("full", "failure", "https://old.example",
                            [error |-> "old"], 0)]

ResultsFileStates ==
    {<<>>} \cup { <<[kind |-> "corrupt"]>> }
    \cup { <<[kind |-> "json", data |-> d]>> : d \in SampleResults }
IssueFileStates == { <<>>, <<StaleIssue>> }

\* the file system holding the given optional files
MkDisk(resultsFile, issueFile) ==
    [p \in (IF resultsFile = <<>> THEN {} ELSE {ResultsPath})
           \cup (IF issueFile = <<>> THEN {} ELSE {IssuePath}) |->
        IF p = ResultsPath THEN resultsFile[1] ELSE issueFile[1]]

ArgSets ==
    [audit_type : AuditTypes, status : Statuses, url : Urls,
     results_file : {NoPath, ResultsPath}]
EnvSets == [slack_webhook : Webhooks, discord_webhook : Webhooks]

(***************************************************************************)
(* The pipeline: the Fetcher may run, then the Notifier runs.              *)
(***************************************************************************)
Init ==
    /\ \E rf \in ResultsFileStates, jf \in IssueFileStates : fs = MkDisk(rf, jf)
    /\ fpc = "ready"
    /\ fexit = -1
    /\ gets = <<>>
    /\ npc = "idle"
    /\ args \in ArgSets
    /\ env \in EnvSets
    /\ results = <<>>
    /\ urgency = NoUrgency
    /\ notifications_sent = <<>>
    /\ attempted = <<>>
    /\ console = <<>>
    /\ subject = <<>>
    /\ posts = <<>>
    /\ nexit = -1

\* quick-check.py run as a script: basic_seo_check(url), then sys.exit
FetcherMain ==
    /\ fpc = "ready"
    /\ npc = "idle"
    /\ \E url \in Urls :
        /\ gets' = Append(gets, url)
        /\ \/ \* requests.get raised: caught, return False
              /\ fexit' = exit_code(FALSE)
              /\ fs' = fs
           \/ \* requests.get returned a response: write the report, return True
              \E response \in Responses, now \in Clock :
                /\ fs' = WriteJson(fs, ResultsPath, report(url, response, now))
                /\ fexit' = exit_code(TRUE)
    /\ fpc' = "exited"
    /\ UNCHANGED notifierVars

\* main and the head of send_notifications: load the results, determine the urgency
NotifierStart ==
    /\ npc = "idle"
    /\ results' = load_results(args.results_file, fs)
    /\ urgency' = determine_urgency(results', args.status)
    /\ notifications_sent' = <<>>
    /\ npc' = "console"
    /\ UNCHANGED <<fs, fetcherVars, args, env, attempted, console, subject, posts, nexit>>

\* 1. Console Summary (Always)
SendConsole ==
    /\ npc = "console"
    /\ console' = console_lines(args.audit_type, args.status, args.url, results)
    /\ attempted' = Append(attempted, "Console")
    /\ notifications_sent' = Append(notifications_sent, "Console")
    /\ npc' = "email"
    /\ UNCHANGED <<fs, fetcherVars, args, env, results, urgency, subject, posts, nexit>>

\* 2. Email Summary (Always): send_email_notification returns True
SendEmail ==
    /\ npc = "email"
    /\ subject' = email_subject(args.audit_type, args.url, results, urgency)
    /\ attempted' = Append(attempted, "Email")
    /\ notifications_sent' = Append(notifications_sent, "Email")
    /\ npc' = "slack"
    /\ UNCHANGED <<fs, fetcherVars, args, env, results, urgency, console, posts, nexit>>

\* the except branch returning True as well
PostReturnsTrue_always(outcome) == TRUE

\* whether a requests.post with this outcome makes the channel method return True
PostReturnsTrue(outcome) == outcome # "exception"

\* the gate left out: the channel method is called whatever the webhook
Configured_always(webhook) == TRUE

\* the channel gate of send_notifications: self.<channel>_webhook is truthy
Configured(webhook) == webhook # ""

\* the Slack payload
slack_payload ==
    [text |-> <<"SEO Audit ", Upper(args.status), " for ", args.url>>,
     color |-> slack_color(urgency),
     title |-> <<"SEO Score: ">>
               \o FormatInt(Get(results, "score", ShownScoreDefault)) \o <<"/100">>,
     priority |-> urgency,
     audit_type |-> Upper(args.audit_type)]

\* the Discord payload
discord_payload ==
    [title |-> <<"SEO Audit ", Upper(args.status)>>,
     description |-> <<"Website: ", args.url, "Score: ">>
               \o FormatInt(Get(results, "score", ShownScoreDefault)) \o <<"/100">>,
     color |-> discord_color(urgency),
     priority |-> urgency]

\* a webhook channel: skipped when not configured, else one POST inside try/except
SendWebhook(channel, webhook, payload, next) ==
    \/ /\ ~Configured(webhook)
       /\ UNCHANGED <<attempted, posts, notifications_sent>>
       /\ npc' = next
    \/ /\ Configured(webhook)
       /\ attempted' = Append(attempted, channel)
       /\ \E outcome \in PostOutcomes :
            /\ posts' = Append(posts, [channel |-> channel, to |-> webhook,
                                       payload |-> payload, outcome |-> outcome])
            /\ notifications_sent' =
                 IF PostReturnsTrue(outcome)
                 THEN Append(notifications_sent, channel)
                 ELSE notifications_sent
       /\ npc' = next

\* 3. Slack (If webhook configured)
SendSlack ==
    /\ npc = "slack"
    /\ SendWebhook("Slack", env.slack_webhook, slack_payload, "discord")
    /\ UNCHANGED <<fs, fetcherVars, args, env, results, urgency, console, subject, nexit>>

\* 4. Discord (If webhook configured)
SendDiscord ==
    /\ npc = "discord"
    /\ SendWebhook("Discord", env.discord_webhook, discord_payload, "github")
    /\ UNCHANGED <<fs, fetcherVars, args, env, results, urgency, console, subject, nexit>>

\* the gate widened to HIGH
IssueWanted_high_too(urg) == urg \in {"CRITICAL", "HIGH"}

\* the gate of the GitHub issue channel
IssueWanted(urg) == urg = "CRITICAL"

\* 5. GitHub Issue (For critical problems): create_github_issue returns True
CreateGithubIssue ==
    /\ npc = "github"
    /\ \/ /\ ~IssueWanted(urgency)
          /\ UNCHANGED <<fs, attempted, notifications_sent>>
       \/ /\ IssueWanted(urgency)
          /\ \E now \in Clock :
               fs' = WriteJson(fs, IssuePath,
                       issue_payload(args.audit_type, args.status, args.url, results, now))
          /\ attempted' = Append(attempted, "GitHub Issue")
          /\ notifications_sent' = Append(notifications_sent, "GitHub Issue")
    /\ npc' = "return"
    /\ UNCHANGED <<fetcherVars, args, env, results, urgency, console, subject, posts, nexit>>

\* return len(notifications_sent) > 0, and main's sys.exit
NotifierExit ==
    /\ npc = "return"
    /\ nexit' = exit_code(Len(notifications_sent) > 0)
    /\ npc' = "exited"
    /\ UNCHANGED <<fs, fetcherVars, args, env, results, urgency, notifications_sent,
                   attempted, console, subject, posts>>

Next ==
    \/ FetcherMain
    \/ NotifierStart
    \/ SendConsole
    \/ SendEmail
    \/ SendSlack
    \/ SendDiscord
    \/ CreateGithubIssue
    \/ NotifierExit

Spec == Init /\ [][Next]_vars

(***************************************************************************)
(* determine_urgency as a function, over every results dict and status.    *)
(***************************************************************************)
InitUrgency ==
    /\ fs = MkDisk(<<>>, <<>>)
    /\ fpc = "ready"
    /\ fexit = -1
    /\ gets = <<>>
    /\ npc = "classify"
    /\ args \in [audit_type : {"quick"}, status : Statuses, url : Urls,
                 results_file : {NoPath}]
    /\ env \in [slack_webhook : {""}, discord_webhook : {""}]
    /\ results \in AllResults
    /\ urgency = NoUrgency
    /\ notifications_sent = <<>>
    /\ attempted = <<>>
    /\ console = <<>>
    /\ subject = <<>>
    /\ posts = <<>>
    /\ nexit = -1

\* urgency = self.determine_urgency(results, status)
Classify ==
    /\ npc = "classify"
    /\ urgency' = determine_urgency(results, args.status)
    /\ npc' = "classified"
    /\ UNCHANGED <<fs, fetcherVars, args, env, results, notifications_sent,
                   attempted, console, subject, posts, nexit>>

NextUrgency == Classify

SpecUrgency == InitUrgency /\ [][NextUrgency]_vars

(***************************************************************************)
(* Properties.                                                             *)
(***************************************************************************)
Classified == npc = "classified"
Loaded == npc \in {"console", "email", "slack", "discord", "github", "return", "exited"}
ConsolePrinted == npc \in {"email", "slack", "discord", "github", "return", "exited"}
EmailPrepared == npc \in {"slack", "discord", "github", "return", "exited"}
Returned == npc \in {"return", "exited"}
Exited == npc = "exited"

ErrorFree(res) == "error" \notin DOMAIN res
ScoreOf(res) == IF "score" \in DOMAIN res THEN res["score"] ELSE 100
CriticalOf(res) == IF "critical_issues" \in DOMAIN res THEN res["critical_issues"] ELSE 0

Range(seq) == { seq[i] : i \in 1..Len(seq) }
PostsOf(channel) == { i \in 1..Len(posts) : posts[i].channel = channel }

\* the first-match-wins policy, written out
PolicyUrgency(res, status) ==
    CASE status = "failure" -> "CRITICAL"
      [] status # "failure" /\ ~ErrorFree(res) -> "CRITICAL"
      [] status # "failure" /\ ErrorFree(res)
         /\ (ScoreOf(res) < 50 \/ CriticalOf(res) > 3) -> "HIGH"
      [] status # "failure" /\ ErrorFree(res)
         /\ ~(ScoreOf(res) < 50 \/ CriticalOf(res) > 3)
         /\ (ScoreOf(res) < 70 \/ CriticalOf(res) > 0) -> "MEDIUM"
      [] OTHER -> "LOW"

\* C1: determine_urgency returns one of the four levels for every results dict
\* and status, and the level is the one the first-match-wins policy gives:
\* failure is CRITICAL, else an error key is CRITICAL, else score < 50 or more
\* than 3 critical issues is HIGH, else score < 70 or any critical issue is
\* MEDIUM, else LOW, a missing score counting as 100 and a missing count as 0.
\* In particular an error-free success with score in 0..49 or more than 3
\* critical issues is HIGH.
C1_UrgencyIsPolicy ==
    Classified =>
        /\ urgency \in Urgencies
        /\ urgency = PolicyUrgency(results, args.status)
        /\ (args.status = "failure" => urgency = "CRITICAL")
        /\ (/\ args.status = "success"
            /\ ErrorFree(results)
            /\ \/ ("score" \in DOMAIN results /\ results["score"] \in 0..49)
               \/ ("critical_issues" \in DOMAIN results /\ results["critical_issues"] > 3)
            => urgency = "HIGH")
        /\ (/\ args.status = "success"
            /\ DOMAIN results = {}
            => urgency = "LOW")

C1_Witness ==
    /\ Classified
    /\ args.status = "success"
    /\ DOMAIN results = {"score", "critical_issues"}
    /\ results["score"] = 49
    /\ results["critical_issues"] = 0
    /\ urgency = "HIGH"

\* the case C2 is about: an error-free success whose score is in 50..69 or
\* whose critical-issue count is in 1..3
C2_Case ==
    /\ Classified
    /\ args.status = "success"
    /\ ErrorFree(results)
    /\ \/ ("score" \in DOMAIN results /\ results["score"] \in 50..69)
       \/ ("critical_issues" \in DOMAIN results /\ results["critical_issues"] \in 1..3)

\* C2 as stated: an error-free success with score in 50..69 or a critical-issue
\* count in 1..3 is MEDIUM, whatever the other field holds.
C2_MediumEitherAlone == C2_Case => urgency = "MEDIUM"

\* C2 as amended: in that case the urgency is MEDIUM unless the other field
\* meets the HIGH test (score < 50 or more than 3 critical issues, a missing
\* score counting as 100 and a missing count as 0), and then it is HIGH.
C2_MediumUnlessHigh ==
    C2_Case =>
        IF ScoreOf(results) < 50 \/ CriticalOf(results) > 3
        THEN urgency = "HIGH"
        ELSE urgency = "MEDIUM"

C2_Witness ==
    /\ C2_Case
    /\ DOMAIN results = {"critical_issues"}
    /\ results["critical_issues"] = 3
    /\ urgency = "MEDIUM"

\* the results file the Notifier was pointed at cannot be loaded
NoUsableResults ==
    \/ args.results_file = NoPath
    \/ args.results_file \notin DOMAIN fs
    \/ fs[args.results_file].kind # "json"

\* C3: with no results path, a path that does not exist or a file that is not
\* JSON, the loaded results are a dict with the key "error", the urgency is
\* CRITICAL for either status, and the console prints the error line and no
\* score line.
C3_MissingResultsAreCritical ==
    (Loaded /\ NoUsableResults) =>
        /\ DOMAIN results = {"error"}
        /\ urgency = "CRITICAL"
        /\ ConsolePrinted =>
             /\ console[Len(console)] = <<"Error: ", results["error"]>>
             /\ \A i \in 1..Len(console) : console[i][1] # "SEO Score: "

C3_Witness ==
    /\ Exited
    /\ args.status = "success"
    /\ args.results_file = ResultsPath
    /\ ResultsPath \in DOMAIN fs
    /\ fs[ResultsPath].kind = "corrupt"
    /\ urgency = "CRITICAL"
    /\ console[Len(console)] = <<"Error: ", "Could not load results: JSONDecodeError">>

\* the issue payload file holds nothing this run wrote
IssueFileUntouched == IssuePath \in DOMAIN fs => fs[IssuePath] = StaleIssue

\* the issue payload file holds the payload of this run
IssueFileWritten ==
    /\ IssuePath \in DOMAIN fs
    /\ fs[IssuePath].kind = "json"
    /\ DOMAIN fs[IssuePath].data = {"audit_type", "status", "url", "results", "timestamp"}
    /\ fs[IssuePath].data["audit_type"] = args.audit_type
    /\ fs[IssuePath].data["status"] = args.status
    /\ fs[IssuePath].data["url"] = args.url
    /\ fs[IssuePath].data["results"] = results
    /\ fs[IssuePath].data["timestamp"] \in Clock

\* C4: create_github_issue is called, and the payload file written, exactly
\* when the urgency is CRITICAL; otherwise the file is untouched and
\* "GitHub Issue" is not in the sent-via list.  A written payload holds the
\* keys audit_type, status, url, results, timestamp with the run's values.
C4_IssueIffCritical ==
    /\ ~Returned => (IssueFileUntouched /\ "GitHub Issue" \notin Range(attempted))
    /\ Returned =>
         IF urgency = "CRITICAL"
         THEN /\ "GitHub Issue" \in Range(attempted)
              /\ "GitHub Issue" \in Range(notifications_sent)
              /\ IssueFileWritten
         ELSE /\ "GitHub Issue" \notin Range(attempted)
              /\ "GitHub Issue" \notin Range(notifications_sent)
              /\ IssueFileUntouched

C4_Witness ==
    /\ Exited
    /\ urgency = "CRITICAL"
    /\ args.status = "success"
    /\ IssueFileWritten
    /\ fs[IssuePath].data["results"] = [error |-> "No results file found"]

ChannelOrder == <<"Console", "Email", "Slack", "Discord", "GitHub Issue">>
Rank(channel) == CHOOSE i \in 1..Len(ChannelOrder) : ChannelOrder[i] = channel

\* the channels send_notifications must attempt in this run
ChannelEnabled(channel) ==
    CASE channel = "Slack" -> env.slack_webhook # ""
      [] channel = "Discord" -> env.discord_webhook # ""
      [] channel = "GitHub Issue" -> urgency = "CRITICAL"
      [] OTHER -> TRUE

Raised(channel) == \E i \in PostsOf(channel) : posts[i].outcome = "exception"

\* C5: the channels are attempted in the order Console, Email, Slack, Discord,
\* GitHub Issue; when send_notifications returns every enabled channel has
\* been attempted, whichever webhook posts raised; a webhook channel is in the
\* sent-via list exactly when its post was issued and did not raise.
C5_FailuresAreIsolated ==
    /\ \A i, j \in 1..Len(attempted) : i < j => Rank(attempted[i]) < Rank(attempted[j])
    /\ \A i, j \in 1..Len(notifications_sent) :
         i < j => Rank(notifications_sent[i]) < Rank(notifications_sent[j])
    /\ Range(notifications_sent) \subseteq Range(attempted)
    /\ \A c \in {"Slack", "Discord"} :
         c \in Range(notifications_sent) <=> (PostsOf(c) # {} /\ ~Raised(c))
    /\ Returned => \A c \in Range(ChannelOrder) : c \in Range(attempted) <=> ChannelEnabled(c)

C5_Witness ==
    /\ Exited
    /\ Raised("Slack")
    /\ Raised("Discord")
    /\ attempted = ChannelOrder
    /\ notifications_sent = <<"Console", "Email", "GitHub Issue">>

\* C6: the Notifier exits with code 0 when the sent-via list is not empty and
\* with code 1 when it is empty, and has no exit code before it exits.
C6_ExitCodeFollowsSent ==
    /\ ~Exited => nexit = -1
    /\ Exited => nexit = (IF Len(notifications_sent) > 0 THEN 0 ELSE 1)

C6_Witness ==
    /\ Exited
    /\ nexit = 0
    /\ Raised("Slack")
    /\ Raised("Discord")
    /\ notifications_sent = <<"Console", "Email">>

\* the score the subject shows: the score of the results, 0 when there is none
ShownScore == IF "score" \in DOMAIN results THEN results["score"] ELSE 0

CompleteSubject ==
    /\ Contains(subject, <<"SEO Audit Complete">>)
    /\ Contains(subject, <<"Score: ">> \o FormatInt(ShownScore) \o <<"/100">>)
    /\ (ShownScore = 85 => Contains(subject, <<"Score: ", "8", "5", "/100">>))

AlarmedSubject ==
    /\ urgency = "CRITICAL" => subject = <<"CRITICAL: SEO Issues Detected", " - ", args.url>>
    /\ urgency = "HIGH" => subject = <<"HIGH: SEO Problems Found", " - ", args.url>>

\* C7 as stated: CRITICAL and HIGH get the alarmed subject, and for MEDIUM and
\* LOW and every audit type the subject is the "audit complete" one with
\* "Score: <score>/100".
C7_CompleteSubjectForAllTypes ==
    EmailPrepared =>
        /\ AlarmedSubject
        /\ urgency \in {"MEDIUM", "LOW"} => CompleteSubject

\* C7 as amended: CRITICAL and HIGH get the alarmed subject; for MEDIUM and LOW
\* the subject is the "audit complete" one with "Score: <score>/100" (0 for a
\* missing score) when the audit type is not deep, and "Weekly SEO Report",
\* without the score, when it is deep.
C7_CompleteSubjectUnlessDeep ==
    EmailPrepared =>
        /\ AlarmedSubject
        /\ (urgency \in {"MEDIUM", "LOW"} /\ args.audit_type # "deep") => CompleteSubject
        /\ (urgency \in {"MEDIUM", "LOW"} /\ args.audit_type = "deep") =>
             /\ subject = <<"Weekly SEO Report", " - ", args.url>>
             /\ ~Contains(subject, <<"Score: ">>)

C7_Witness ==
    /\ EmailPrepared
    /\ args.status = "success"
    /\ args.audit_type = "quick"
    /\ results = [score |-> 85]
    /\ urgency = "LOW"
    /\ Contains(subject, <<"Score: ", "8", "5", "/100">>)

\* C8: a webhook channel with an empty URL is skipped: no POST, not attempted,
\* not in the sent-via list, and the run still attempts the other enabled
\* channels and exits 0.  Every POST goes to the non-empty URL configured for
\* its channel, and each channel is posted to at most once.
C8_UnconfiguredChannelSkipped ==
    /\ \A i \in 1..Len(posts) :
         /\ posts[i].to # ""
         /\ posts[i].channel = "Slack" => posts[i].to = env.slack_webhook
         /\ posts[i].channel = "Discord" => posts[i].to = env.discord_webhook
    /\ \A c \in {"Slack", "Discord"} : Cardinality(PostsOf(c)) <= 1
    /\ Len(posts) <= 2
    /\ env.slack_webhook = "" =>
         (PostsOf("Slack") = {} /\ "Slack" \notin Range(attempted)
          /\ "Slack" \notin Range(notifications_sent))
    /\ env.discord_webhook = "" =>
         (PostsOf("Discord") = {} /\ "Discord" \notin Range(attempted)
          /\ "Discord" \notin Range(notifications_sent))
    /\ Returned =>
         /\ (env.slack_webhook # "" <=> Cardinality(PostsOf("Slack")) = 1)
         /\ (env.discord_webhook # "" <=> Cardinality(PostsOf("Discord")) = 1)
         /\ {"Console", "Email"} \subseteq Range(notifications_sent)
    /\ Exited => nexit = 0

C8_Witness ==
    /\ Exited
    /\ env.slack_webhook = ""
    /\ env.discord_webhook # ""
    /\ Len(posts) = 1
    /\ posts[1].channel = "Discord"
    /\ posts[1].outcome = "ok"
    /\ notifications_sent = <<"Console", "Email", "Discord">>
    /\ nexit = 0

ReportKeys == {"url", "timestamp", "status_code", "response_time", "content_length",
               "has_title", "has_meta_description"}

\* the results file holds a report of the Fetcher
ReportWritten ==
    /\ ResultsPath \in DOMAIN fs
    /\ fs[ResultsPath].kind = "json"
    /\ DOMAIN fs[ResultsPath].data = ReportKeys

\* C9: the Fetcher issues exactly one GET; when the GET raises it exits 1 and
\* the results file is left as it was; when the GET returns a response,
\* whatever its status code, the seven-field report is in the results file and
\* it exits 0.
C9_FetcherOneGetAndExit ==
    /\ fpc = "ready" => (gets = <<>> /\ fexit = -1 /\ ~ReportWritten)
    /\ fpc = "exited" =>
         /\ Len(gets) = 1
         /\ fexit \in {0, 1}
         /\ fexit = 1 => ~ReportWritten
         /\ fexit = 0 =>
              /\ ReportWritten
              /\ fs[ResultsPath].data["url"] = gets[1]
              /\ fs[ResultsPath].data["status_code"] \in StatusCodes
              /\ fs[ResultsPath].data["timestamp"] \in Clock
              /\ fs[ResultsPath].data["has_title"] \in BOOLEAN
              /\ fs[ResultsPath].data["has_meta_description"] \in BOOLEAN

C9_Witness ==
    /\ fpc = "exited"
    /\ fexit = 0
    /\ ReportWritten
    /\ fs[ResultsPath].data["status_code"] = 500
    /\ fs[ResultsPath].data["has_title"]
    /\ ~fs[ResultsPath].data["has_meta_description"]

\* C10: when the Fetcher succeeded and the Notifier then reads the file it
\* wrote with status success, the loaded record has none of the keys error,
\* score, critical_issues, the urgency is LOW, and no issue payload is written.
C10_FetchedRecordIsLow ==
    (Loaded /\ fexit = 0 /\ args.results_file = ResultsPath /\ args.status = "success") =>
        /\ DOMAIN results = ReportKeys
        /\ urgency = "LOW"
        /\ "GitHub Issue" \notin Range(attempted)
        /\ IssueFileUntouched

C10_Witness ==
    /\ Exited
    /\ fexit = 0
    /\ args.results_file = ResultsPath
    /\ args.status = "success"
    /\ results["status_code"] = 500
    /\ ~results["has_title"]
    /\ urgency = "LOW"
    /\ IssuePath \notin DOMAIN fs

====
